---- MODULE Spec2Model ----
(***************************************************************************)
(* Model of the PlatformAdmin controller of OpenYurt                        *)
(* (pkg/controller/platformadmin/platformadmin_controller.go).              *)
(*                                                                          *)
(* The cluster API is the state: the PlatformAdmin objects (parents), and   *)
(* the ConfigMaps, Services and YurtAppSets (children) of one namespace.    *)
(* One Reconcile invocation is one action; the API calls it makes may fail, *)
(* which is an input of the action.                                         *)
(***************************************************************************)
EXTENDS Integers, Sequences, FiniteSets, TLC

VARIABLES
    pa,         \* PlatformAdmin objects as persisted by the API server
    cm,         \* ConfigMap objects, by name
    svc,        \* Service objects, by name
    yas,        \* YurtAppSet objects, by name
    last,       \* what the most recent Reconcile invocation did and returned
    desiredAt,  \* per parent: names resolved by its latest pass that finished the component loop
    edits,      \* number of external spec edits applied so far
    resolve,    \* an annotation payload handed to annotationToComponent, and its result
    inflight,   \* per parent: the YurtAppSet copy a pass has read and not yet written back
    mem         \* per catalog list: the elements of its backing array beyond its length

vars == <<pa, cm, svc, yas, last, desiredAt, edits, resolve, inflight, mem>>

-----------------------------------------------------------------------------
(* Bounds of the model *)

\* external edits of parent specs (version / annotations) along one behaviour
MaxEdits == 1

-----------------------------------------------------------------------------
(* Universe *)

Parents == {"pa1", "pa2"}
ExtOwner == "ext"                       \* an owner that is no PlatformAdmin of the model
Nil == "nil"

\* the value of an annotation, as JSON text: an array of templates, the
\* literal null, or text that is no JSON
JsonArray(items) == [kind |-> "array", items |-> items]
JsonNull == [kind |-> "null", items |-> <<>>]
Malformed == [kind |-> "malformed", items |-> <<>>]

Versions == {"v1", "v9"}                \* v9 is a key of no catalog
PoolNames == {"pl1", "pl2"}
ExtPool == "plx"                        \* a pool entry contributed by somebody else

CompNames == {"a", "x"}
CMNames == {"cm1", "cm2"}

Component(n, d, s) == [Name |-> n, Deployment |-> d, Service |-> s]
Template(n, s) == [Name |-> n, Spec |-> s]

\* r.Configration: the static catalogs, keyed by version
\* v2 is a key of the security catalog only
SecurityComponents ==
    ("v1" :> <<Component("a", "dep-a-sec", Nil)>>)
    @@ ("v2" :> <<Component("b", "dep-b-sec", Nil)>>)
NoSectyComponents == "v1" :> <<Component("a", "dep-a", "svc-a")>>
SecurityConfigMaps == "v1" :> <<"cm1">>
NoSectyConfigMaps == "v1" :> <<"cm1", "cm2">>

\* Go map lookup: a missing key yields the zero value (a nil slice)
Lookup(m, k) == IF k \in DOMAIN m THEN m[k] ELSE <<>>

-----------------------------------------------------------------------------
(* Small helpers on sequences *)

Range(s) == {s[i] : i \in DOMAIN s}
Front(s) == SubSeq(s, 1, Len(s) - 1)
SeqNames(s) == {s[i].Name : i \in DOMAIN s}
NoDup(s) == \A i, j \in DOMAIN s : i # j => s[i] # s[j]

RECURSIVE SelectBy(_, _)
\* the subsequence of order whose elements are in set
SelectBy(order, set) ==
    IF order = <<>> THEN <<>>
    ELSE IF Head(order) \in set
         THEN <<Head(order)>> \o SelectBy(Tail(order), set)
         ELSE SelectBy(Tail(order), set)

-----------------------------------------------------------------------------
(* annotationToComponent *)

AnnDeployments == "AdditionalDeployments"
AnnServices == "AdditionalServices"

\* json.Unmarshal of one annotation value into a slice of templates
Unmarshal(v) ==
    IF v.kind = "malformed" THEN [err |-> TRUE, val |-> <<>>]
    ELSE IF v.kind = "null" THEN [err |-> FALSE, val |-> <<>>]
    ELSE [err |-> FALSE, val |-> v.items]

\* what the pointer &loopvar.Spec taken in iteration i of a range loop over s
\* refers to once the loop is over: with one variable for the whole loop (Go
\* before 1.22) it is the last element's Spec, with one variable per iteration
\* it is the Spec of element i
LoopVarSpec(s, i, sharedLoopVar) ==
    IF sharedLoopVar THEN s[Len(s)].Spec ELSE s[i].Spec

\* services[additionalservice.Name] = &additionalservice.Spec, for each element
\* in order: a later element of the same name replaces the earlier entry
ServicesMap(ss, sharedLoopVar) ==
    [n \in SeqNames(ss) |->
        LET i == CHOOSE i \in DOMAIN ss :
                    /\ ss[i].Name = n
                    /\ \A j \in DOMAIN ss : ss[j].Name = n => j <= i
        IN LoopVarSpec(ss, i, sharedLoopVar)]

\* mapOrder is the order in which range visits the keys of the services map
annotationToComponent(annotation, sharedLoopVar, mapOrder) ==
    LET merge(deployments, services) ==
            LET withDeployment ==
                    [i \in DOMAIN deployments |->
                        Component(deployments[i].Name,
                                  LoopVarSpec(deployments, i, sharedLoopVar),
                                  IF deployments[i].Name \in DOMAIN services
                                  THEN services[deployments[i].Name] ELSE Nil)]
                usedServices == SeqNames(deployments) \cap DOMAIN services
                rest == SelectBy(mapOrder, DOMAIN services \ usedServices)
                serviceOnly ==
                    [i \in DOMAIN rest |-> Component(rest[i], Nil, services[rest[i]])]
            IN  [err |-> FALSE,
                 components |->
                    IF Cardinality(usedServices) < Cardinality(DOMAIN services)
                    THEN withDeployment \o serviceOnly
                    ELSE withDeployment]
        decoded(d, s) ==
            IF d.err \/ s.err THEN [err |-> TRUE, components |-> <<>>]
            ELSE IF Len(d.val) = 0 /\ Len(s.val) = 0
            THEN [err |-> FALSE, components |-> <<>>]
            ELSE merge(d.val, ServicesMap(s.val, sharedLoopVar))
    IN  decoded(IF AnnDeployments \in DOMAIN annotation
                THEN Unmarshal(annotation[AnnDeployments])
                ELSE [err |-> FALSE, val |-> <<>>],
                IF AnnServices \in DOMAIN annotation
                THEN Unmarshal(annotation[AnnServices])
                ELSE [err |-> FALSE, val |-> <<>>])

-----------------------------------------------------------------------------
(* API objects *)

OwnerRef(uid, controller) == [uid |-> uid, controller |-> controller]

NoObject == [exists |-> FALSE, owners |-> <<>>, labelled |-> FALSE]
NoYas ==
    [exists |-> FALSE, owners |-> <<>>, labelled |-> FALSE, pools |-> <<>>,
     statusPools |-> {}, replicasMatch |-> TRUE]

Pool(name, replicas) == [Name |-> name, Replicas |-> replicas]

ConfigmapAvailableCondition == "ConfigmapAvailable"
ComponentAvailableCondition == "ComponentAvailable"
ConditionTypes == {ConfigmapAvailableCondition, ComponentAvailableCondition}
ConfigmapProvisioningFailedReason == "ConfigmapProvisioningFailed"
ConfigmapProvisioningReason == "ConfigmapProvisioning"
ComponentProvisioningReason == "ComponentProvisioning"

Condition(status, reason, message) ==
    [status |-> status, reason |-> reason, message |-> message]
NoCondition == Condition("Absent", "", "")

EmptyStatus ==
    [conditions |-> [t \in ConditionTypes |-> NoCondition],
     ready |-> FALSE, readyNum |-> 0, unreadyNum |-> 0]

\* util.SetPlatformAdminCondition: the condition of that type is replaced
SetPlatformAdminCondition(status, type, cond) ==
    [status EXCEPT !.conditions[type] = cond]

OwnerUids(owners) == {owners[i].uid : i \in DOMAIN owners}

\* controllerutil.SetOwnerReference: a plain (non-controller) reference to the
\* parent is appended, or replaces the reference the parent already has
SetOwnerReference(owners, uid) ==
    IF uid \in OwnerUids(owners)
    THEN [i \in DOMAIN owners |->
            IF owners[i].uid = uid THEN OwnerRef(uid, FALSE) ELSE owners[i]]
    ELSE Append(owners, OwnerRef(uid, FALSE))

\* controllerutil.SetControllerReference on an object that has no owner yet
SetControllerReference(owners, uid) == Append(owners, OwnerRef(uid, TRUE))

\* controllerutil.CreateOrUpdate with a mutate function that sets the owner
\* reference: a missing object is created as given (with its label), an existing
\* one is read back from the server and only gets the owner reference
CreateOrUpdate(obj, uid) ==
    IF obj.exists
    THEN [obj EXCEPT !.owners = SetOwnerReference(@, uid)]
    ELSE [obj EXCEPT !.exists = TRUE, !.labelled = TRUE,
                     !.owners = SetOwnerReference(<<>>, uid)]

\* client.MergeFrom(old) + Patch: the fields that differ between old and new
\* are written over the server's current object; a list is replaced as a whole
MergePatch(cur, old, new) ==
    [cur EXCEPT !.pools = IF new.pools # old.pools THEN new.pools ELSE @,
                !.owners = IF new.owners # old.owners THEN new.owners ELSE @]

-----------------------------------------------------------------------------
(* API call failures, the input of a pass *)

HardSites == {"none", "getPA", "cmUpsert", "svcUpsert", "yasGet", "yasCreate",
              "yasPatch", "paUpdate"}
GCSites == {"cmList", "cmRemove", "svcList", "svcRemove", "yasList", "yasRemove"}

\* site/k: the call on the main path that fails (k: index of the config map or
\* component it is made for); gc: the garbage collection calls that fail;
\* status: whether the deferred status update fails
Fault(site, k, gc, status) == [site |-> site, k |-> k, gc |-> gc, status |-> status]
NoFault == Fault("none", 0, {}, FALSE)
Fails(fault, site, k) == fault.site = site /\ fault.k = k

-----------------------------------------------------------------------------
(* removeOwner and the garbage collection scans *)

RECURSIVE IndexOfUid(_, _, _)
\* the first index i >= from of owners with that uid, 0 if there is none
IndexOfUid(owners, uid, from) ==
    IF from > Len(owners) THEN 0
    ELSE IF owners[from].uid = uid THEN from
    ELSE IndexOfUid(owners, uid, from + 1)

\* owners[i] = owners[len-1]; owners = owners[:len-1]
SwapRemove(s, i) == Front([s EXCEPT ![i] = s[Len(s)]])

\* removeOwner: absent is the value of a deleted object of that kind
removeOwner(obj, uid, absent, fail) ==
    LET i == IndexOfUid(obj.owners, uid, 1)
    IN  IF i = 0 \/ fail THEN obj
        ELSE IF Len(obj.owners) = 1 THEN absent
        ELSE [obj EXCEPT !.owners = SwapRemove(@, i)]

\* the label-scoped list and the loop over its items
CollectGarbage(objs, need, uid, absent, listFails, removeFails) ==
    IF listFails THEN objs
    ELSE [n \in DOMAIN objs |->
            IF objs[n].exists /\ objs[n].labelled /\ n \notin need
            THEN removeOwner(objs[n], uid, absent, removeFails)
            ELSE objs[n]]

-----------------------------------------------------------------------------
(* Desired components *)

\* a faulty variant of the selection: the catalog of the other mode
CatalogComponentsSwapped(parent) ==
    IF parent.security
    THEN Lookup(NoSectyComponents, parent.version)
    ELSE Lookup(SecurityComponents, parent.version)

\* the catalog list selected by (Spec.Security, Spec.Version)
CatalogComponents(parent) ==
    IF parent.security
    THEN Lookup(SecurityComponents, parent.version)
    ELSE Lookup(NoSectyComponents, parent.version)

CatalogConfigMaps(parent) ==
    IF parent.security
    THEN Lookup(SecurityConfigMaps, parent.version)
    ELSE Lookup(NoSectyConfigMaps, parent.version)

\* catalog list followed by the annotation-derived components
DesiredComponents(parent, sharedLoopVar, mapOrder) ==
    LET appended(additional) ==
            [err |-> additional.err,
             components |-> IF additional.err THEN <<>>
                            ELSE CatalogComponents(parent) \o additional.components]
    IN  appended(annotationToComponent(parent.annotations, sharedLoopVar, mapOrder))

-----------------------------------------------------------------------------
(* reconcileConfigmap *)

RECURSIVE ConfigmapLoop(_, _, _, _, _)
\* the loop over the catalog's config maps, from index k on
ConfigmapLoop(cms, names, k, uid, fault) ==
    IF k > Len(names) THEN [cm |-> cms, err |-> FALSE]
    ELSE IF Fails(fault, "cmUpsert", k) THEN [cm |-> cms, err |-> TRUE]
    ELSE ConfigmapLoop([cms EXCEPT ![names[k]] = CreateOrUpdate(@, uid)],
                       names, k + 1, uid, fault)

\* a faulty variant: a failing list call of the garbage collection is returned
\* as the error of reconcileConfigmap
reconcileConfigmapListAborts(cms, parent, uid, fault) ==
    LET collect(names, upserted) ==
            IF upserted.err \/ "cmList" \in fault.gc
            THEN [ok |-> FALSE, err |-> TRUE, cm |-> upserted.cm]
            ELSE [ok |-> TRUE, err |-> FALSE,
                  cm |-> CollectGarbage(upserted.cm, Range(names), uid, NoObject,
                                        FALSE, "cmRemove" \in fault.gc)]
    IN  collect(CatalogConfigMaps(parent),
                ConfigmapLoop(cms, CatalogConfigMaps(parent), 1, uid, fault))

reconcileConfigmap(cms, parent, uid, fault) ==
    LET collect(names, upserted) ==
            IF upserted.err
            THEN [ok |-> FALSE, err |-> TRUE, cm |-> upserted.cm]
            ELSE [ok |-> TRUE, err |-> FALSE,
                  cm |-> CollectGarbage(upserted.cm, Range(names), uid, NoObject,
                                        "cmList" \in fault.gc, "cmRemove" \in fault.gc)]
    IN  collect(CatalogConfigMaps(parent),
                ConfigmapLoop(cms, CatalogConfigMaps(parent), 1, uid, fault))

-----------------------------------------------------------------------------
(* reconcileComponent *)

\* handleService: no call at all for a component without a service
handleService(svcs, uid, component, fails) ==
    IF component.Service = Nil THEN [svc |-> svcs, err |-> FALSE]
    ELSE IF fails THEN [svc |-> svcs, err |-> TRUE]
    ELSE [svc |-> [svcs EXCEPT ![component.Name] = CreateOrUpdate(@, uid)],
          err |-> FALSE]

\* the YurtAppSet handleYurtAppSet builds: one pool for the parent's pool name
\* and a controller reference to the parent
NewYurtAppSet(uid, poolName) ==
    [exists |-> TRUE, owners |-> SetControllerReference(<<>>, uid), labelled |-> TRUE,
     pools |-> <<Pool(poolName, 1)>>, statusPools |-> {}, replicasMatch |-> TRUE]

\* handleYurtAppSet; *component.Deployment of a nil Deployment is a nil pointer
\* dereference, a run-time panic raised before any call is made
handleYurtAppSet(uid, poolName, component, fails) ==
    IF component.Deployment = Nil THEN [yas |-> NoYas, out |-> "panic"]
    ELSE IF fails THEN [yas |-> NoYas, out |-> "err"]
    ELSE [yas |-> NewYurtAppSet(uid, poolName), out |-> "done"]

\* a faulty variant of the join path: the pool is appended without looking for
\* an entry of that name
JoinPoolsUnchecked(pools, poolName) == Append(pools, Pool(poolName, 1))

\* the pool list of the join path: the parent's pool is appended unless an
\* entry of that name is there
JoinPools(pools, poolName) ==
    IF \E i \in DOMAIN pools : pools[i].Name = poolName
    THEN pools
    ELSE Append(pools, Pool(poolName, 1))

\* whether the component counts as ready: the YurtAppSet's status lists the
\* pool and its ready replicas equal its replicas
ComponentReady(y, poolName) == poolName \in y.statusPools /\ y.replicasMatch

RECURSIVE ComponentLoopNoAbort(_, _, _, _, _, _, _, _)
\* a faulty variant of the NextC loop: a failed call is remembered and the loop
\* goes on with the next component
ComponentLoopNoAbort(svcs, yass, dcs, k, ready, uid, poolName, fault) ==
    IF k > Len(dcs)
    THEN [svc |-> svcs, yas |-> yass, ready |-> ready, out |-> "done", site |-> "none"]
    ELSE
    LET next(ss, ys, rdy) ==
            ComponentLoopNoAbort(ss, ys, dcs, k + 1, rdy, uid, poolName, fault)
        stop(ss, out, site) ==
            [next(ss, yass, ready) EXCEPT !.out = out, !.site = site]
        created(dc, ss, h) ==
            IF h.out # "done" THEN stop(ss, h.out, "yasCreate")
            ELSE next(ss, [yass EXCEPT ![dc.Name] = h.yas], ready)
        joined(dc, ss, y) ==
            next(ss,
                 [yass EXCEPT ![dc.Name] =
                    MergePatch(y, y, [y EXCEPT !.pools = JoinPools(@, poolName),
                                               !.owners = SetOwnerReference(@, uid)])],
                 ready)
        afterService(dc, s, y) ==
            IF s.err THEN stop(svcs, "err", "svcUpsert")
            ELSE IF Fails(fault, "yasGet", k) THEN stop(s.svc, "err", "yasGet")
            ELSE IF ~y.exists
            THEN created(dc, s.svc,
                         handleYurtAppSet(uid, poolName, dc, Fails(fault, "yasCreate", k)))
            ELSE IF poolName \in y.statusPools
            THEN next(s.svc, yass,
                      IF ComponentReady(y, poolName) THEN ready + 1 ELSE ready)
            ELSE IF Fails(fault, "yasPatch", k) THEN stop(s.svc, "err", "yasPatch")
            ELSE joined(dc, s.svc, y)
    IN  afterService(dcs[k],
                     handleService(svcs, uid, dcs[k], Fails(fault, "svcUpsert", k)),
                     yass[dcs[k].Name])

RECURSIVE ComponentLoop(_, _, _, _, _, _, _, _)
\* the NextC loop from index k on; out is "done", "err" or "panic"
ComponentLoop(svcs, yass, dcs, k, ready, uid, poolName, fault) ==
    IF k > Len(dcs)
    THEN [svc |-> svcs, yas |-> yass, ready |-> ready, out |-> "done", site |-> "none"]
    ELSE
    LET stop(ss, out, site) ==
            [svc |-> ss, yas |-> yass, ready |-> ready, out |-> out, site |-> site]
        next(ss, ys, rdy) ==
            ComponentLoop(ss, ys, dcs, k + 1, rdy, uid, poolName, fault)
        \* the YurtAppSet was not found: handleYurtAppSet came to h
        created(dc, ss, h) ==
            IF h.out # "done" THEN stop(ss, h.out, "yasCreate")
            ELSE next(ss, [yass EXCEPT ![dc.Name] = h.yas], ready)
        \* the YurtAppSet y was found and its status does not list the pool
        joined(dc, ss, y) ==
            next(ss,
                 [yass EXCEPT ![dc.Name] =
                    MergePatch(y, y, [y EXCEPT !.pools = JoinPools(@, poolName),
                                               !.owners = SetOwnerReference(@, uid)])],
                 ready)
        \* handleService came to s
        afterService(dc, s, y) ==
            IF s.err THEN stop(svcs, "err", "svcUpsert")
            ELSE IF Fails(fault, "yasGet", k) THEN stop(s.svc, "err", "yasGet")
            ELSE IF ~y.exists
            THEN created(dc, s.svc,
                         handleYurtAppSet(uid, poolName, dc, Fails(fault, "yasCreate", k)))
            ELSE IF poolName \in y.statusPools
            THEN next(s.svc, yass,
                      IF ComponentReady(y, poolName) THEN ready + 1 ELSE ready)
            ELSE IF Fails(fault, "yasPatch", k) THEN stop(s.svc, "err", "yasPatch")
            ELSE joined(dc, s.svc, y)
    IN  afterService(dcs[k],
                     handleService(svcs, uid, dcs[k], Fails(fault, "svcUpsert", k)),
                     yass[dcs[k].Name])

\* the deferred assignment of the two counts
SetComponentCounts(status, ready, total) ==
    [status EXCEPT !.readyNum = ready, !.unreadyNum = total - ready]

\* out: "ready" (true, nil), "notready" (false, nil), "err" (false, err), "panic"
reconcileComponent(svcs, yass, parent, uid, status, fault, sharedLoopVar, mapOrder) ==
    LET \* the loop over the desired components dcs came to loop
        looped(dcs, loop) ==
            IF loop.out # "done"
            THEN [out |-> loop.out, site |-> loop.site, svc |-> loop.svc,
                  yas |-> loop.yas,
                  status |-> SetComponentCounts(status, loop.ready, Len(dcs)),
                  finished |-> FALSE, need |-> SeqNames(dcs)]
            ELSE [out |-> IF loop.ready = Len(dcs) THEN "ready" ELSE "notready",
                  site |-> "none",
                  svc |-> CollectGarbage(loop.svc, SeqNames(dcs), uid, NoObject,
                                         "svcList" \in fault.gc, "svcRemove" \in fault.gc),
                  yas |-> CollectGarbage(loop.yas, SeqNames(dcs), uid, NoYas,
                                         "yasList" \in fault.gc, "yasRemove" \in fault.gc),
                  status |-> SetComponentCounts(status, loop.ready, Len(dcs)),
                  finished |-> TRUE, need |-> SeqNames(dcs)]
        resolved(desired) ==
            IF desired.err
            THEN [out |-> "err", site |-> "decode", svc |-> svcs, yas |-> yass,
                  status |-> status, finished |-> FALSE, need |-> {}]
            ELSE looped(desired.components,
                        ComponentLoop(svcs, yass, desired.components, 1, 0, uid,
                                      parent.poolName, fault))
    IN  resolved(DesiredComponents(parent, sharedLoopVar, mapOrder))

-----------------------------------------------------------------------------
(* reconcileNormal *)

\* the delay of reconcile.Result{RequeueAfter: 10 * time.Second}, in seconds
RequeueAfter == 10

\* err.Error(): the text of the error of a failed call
ErrorText(site) == IF site = "decode" THEN "invalid character" ELSE "api error"

\* inner: what reconcileNormal returns: "ok" (Result{}, nil), "requeue"
\* (Result{RequeueAfter}, nil), "error" (Result{}, err), or "panic" when it
\* does not return; finalizer: whether the parent update that persists the
\* finalizer was made
reconcileNormal(cms, svcs, yass, parent, uid, status, fault, sharedLoopVar, mapOrder) ==
    LET cmFailed(c) ==
            [cm |-> c.cm, svc |-> svcs, yas |-> yass,
             status |-> SetPlatformAdminCondition(status, ConfigmapAvailableCondition,
                            Condition("False",
                                      IF c.err THEN ConfigmapProvisioningFailedReason
                                      ELSE ConfigmapProvisioningReason,
                                      IF c.err THEN ErrorText("cmUpsert") ELSE "")),
             inner |-> IF c.err THEN "error" ELSE "requeue",
             site |-> IF c.err THEN "cmUpsert" ELSE "none",
             finalizer |-> FALSE, finished |-> FALSE, need |-> {}]
        stop(c, r, st, inner, site, finalizer) ==
            [cm |-> c.cm, svc |-> r.svc, yas |-> r.yas, status |-> st,
             inner |-> inner, site |-> site, finalizer |-> finalizer,
             finished |-> r.finished, need |-> r.need]
        notAvailable(r, message) ==
            SetPlatformAdminCondition(r.status, ComponentAvailableCondition,
                Condition("False", ComponentProvisioningReason, message))
        available(r) ==
            [SetPlatformAdminCondition(r.status, ComponentAvailableCondition,
                                       Condition("True", "", ""))
                EXCEPT !.ready = TRUE]
        \* reconcileConfigmap came to c and reconcileComponent to r
        afterComponent(c, r) ==
            IF r.out = "panic" THEN stop(c, r, r.status, "panic", r.site, FALSE)
            ELSE IF r.out = "err"
            THEN stop(c, r, notAvailable(r, ErrorText(r.site)), "error", r.site, FALSE)
            ELSE IF r.out = "notready"
            THEN stop(c, r, notAvailable(r, ""), "requeue", "none", FALSE)
            ELSE IF fault.site = "paUpdate"
            THEN stop(c, r, available(r), "error", "paUpdate", FALSE)
            ELSE stop(c, r, available(r), "ok", "none", TRUE)
        afterConfigmap(c) ==
            IF ~c.ok THEN cmFailed(c)
            ELSE afterComponent(c,
                    reconcileComponent(svcs, yass, parent, uid,
                        SetPlatformAdminCondition(status, ConfigmapAvailableCondition,
                                                  Condition("True", "", "")),
                        fault, sharedLoopVar, mapOrder))
    IN  afterConfigmap(reconcileConfigmap(cms, parent, uid, fault))

-----------------------------------------------------------------------------
(* reconcileDelete *)

RECURSIVE RemovePoolLoop(_, _, _, _)
\* for i, pool := range Pools: the range reads the array the slice had when the
\* loop began; a match at i is overwritten by the last element of the current
\* slice, which is then cut by one; arr is that array, len the current length
RemovePoolLoop(arr, len, i, poolName) ==
    IF i > Len(arr) THEN [pools |-> SubSeq(arr, 1, len), panic |-> FALSE]
    ELSE IF arr[i].Name # poolName THEN RemovePoolLoop(arr, len, i + 1, poolName)
    ELSE IF i > len THEN [pools |-> SubSeq(arr, 1, len), panic |-> TRUE]
    ELSE RemovePoolLoop([arr EXCEPT ![i] = arr[len]], len - 1, i + 1, poolName)

RemovePool(pools, poolName) == RemovePoolLoop(pools, Len(pools), 1, poolName)

RECURSIVE DeleteLoopDropsEmpty(_, _, _, _, _)
\* a faulty variant of the loop: a YurtAppSet whose last pool was removed is
\* deleted instead of patched
DeleteLoopDropsEmpty(yass, dcs, k, poolName, fault) ==
    IF k > Len(dcs) THEN [yas |-> yass, out |-> "done", site |-> "none"]
    ELSE
    LET y == yass[dcs[k].Name]
        removed == RemovePool(y.pools, poolName)
    IN  IF Fails(fault, "yasGet", k) \/ ~y.exists
        THEN DeleteLoopDropsEmpty(yass, dcs, k + 1, poolName, fault)
        ELSE IF removed.panic THEN [yas |-> yass, out |-> "panic", site |-> "none"]
        ELSE IF Fails(fault, "yasPatch", k)
        THEN [yas |-> yass, out |-> "err", site |-> "yasPatch"]
        ELSE DeleteLoopDropsEmpty(
                [yass EXCEPT ![dcs[k].Name] =
                    IF removed.pools = <<>> THEN NoYas
                    ELSE MergePatch(y, y, [y EXCEPT !.pools = removed.pools])],
                dcs, k + 1, poolName, fault)

RECURSIVE DeleteLoop(_, _, _, _, _)
\* the loop over the desired components from index k on; a YurtAppSet whose
\* Get fails, for whatever reason, is skipped
DeleteLoop(yass, dcs, k, poolName, fault) ==
    IF k > Len(dcs) THEN [yas |-> yass, out |-> "done", site |-> "none"]
    ELSE
    LET y == yass[dcs[k].Name]
        removed == RemovePool(y.pools, poolName)
    IN  IF Fails(fault, "yasGet", k) \/ ~y.exists
        THEN DeleteLoop(yass, dcs, k + 1, poolName, fault)
        ELSE IF removed.panic THEN [yas |-> yass, out |-> "panic", site |-> "none"]
        ELSE IF Fails(fault, "yasPatch", k)
        THEN [yas |-> yass, out |-> "err", site |-> "yasPatch"]
        ELSE DeleteLoop(
                [yass EXCEPT ![dcs[k].Name] =
                    MergePatch(y, y, [y EXCEPT !.pools = removed.pools])],
                dcs, k + 1, poolName, fault)

\* finalizer: whether the parent update that drops the finalizer was made
reconcileDelete(yass, parent, fault, sharedLoopVar, mapOrder) ==
    LET result(ys, inner, site, finalizer, need) ==
            [yas |-> ys, inner |-> inner, site |-> site, finalizer |-> finalizer,
             need |-> need]
        \* the loop over the desired components dcs came to loop
        looped(dcs, loop) ==
            IF loop.out = "panic"
            THEN result(loop.yas, "panic", "none", FALSE, SeqNames(dcs))
            ELSE IF loop.out = "err"
            THEN result(loop.yas, "error", loop.site, FALSE, SeqNames(dcs))
            ELSE IF fault.site = "paUpdate"
            THEN result(loop.yas, "error", "paUpdate", FALSE, SeqNames(dcs))
            ELSE result(loop.yas, "ok", "none", TRUE, SeqNames(dcs))
        resolved(desired) ==
            IF desired.err THEN result(yass, "error", "decode", FALSE, {})
            ELSE looped(desired.components,
                        DeleteLoop(yass, desired.components, 1, parent.poolName, fault))
    IN  resolved(DesiredComponents(parent, sharedLoopVar, mapOrder))

-----------------------------------------------------------------------------
(* Reconcile *)

EmptyAnn == [k \in {} |-> Nil]

\* a parent the API server no longer has
GoneParent ==
    [exists |-> FALSE, deleting |-> FALSE, finalizer |-> FALSE, version |-> "v9",
     security |-> FALSE, poolName |-> "pl1", annotations |-> EmptyAnn,
     status |-> EmptyStatus]

NoPass ==
    [p |-> "none", path |-> "none", inner |-> "none", err |-> FALSE, requeue |-> 0,
     statusWrite |-> FALSE, statusErr |-> FALSE, need |-> {}, finished |-> FALSE,
     gcFailed |-> FALSE, dropped |-> {}, site |-> "none", k |-> 0]

\* a faulty variant of the deferred function: the guard inverted
DeferredStatusUpdateInverted(isDeleted) == isDeleted

\* the deferred function of Reconcile: whether it issues Status().Update
DeferredStatusUpdate(isDeleted) == ~isDeleted

\* One invocation of Reconcile for parent p on cluster c = [pa, cm, svc, yas].
\* The result is the cluster it leaves and the record of what it did:
\*   path        "notfound", "geterr", "delete" or "normal"
\*   inner       what reconcileNormal / reconcileDelete came to
\*   err         whether the returned error (reterr) is non-nil
\*   requeue     Result.RequeueAfter in seconds
\*   statusWrite whether Status().Update was called
\*   statusErr   whether that call failed
\*   need        the names of the desired components the pass resolved
\*   finished    normal: the component loop ran to its end (so did the garbage
\*               collection); delete: the finalizer was removed
\*   gcFailed    a call of the garbage collection is one that fails
\*   dropped     the names desired at the parent's previous finished pass and
\*               not in this one (filled in by the caller, which keeps track)
\*   site        the call whose error ended the pass ("decode": the
\*               annotation payload), "none" if no such call
\*   k           the index of the config map or component that call was for
Reconcile(c, p, fault, sharedLoopVar, mapOrder) ==
    LET parent == c.pa[p]
        done(path, inner, err, site) ==
            [c |-> c,
             out |-> [NoPass EXCEPT !.p = p, !.path = path, !.inner = inner,
                                    !.err = err, !.site = site]]
        \* reconcileDelete came to d
        deleted(d) ==
            [c |-> [c EXCEPT !.yas = d.yas,
                             !.pa[p] = IF d.finalizer
                                       THEN [GoneParent EXCEPT !.poolName = parent.poolName]
                                       ELSE @],
             out |-> [p |-> p, path |-> "delete", inner |-> d.inner,
                      err |-> d.inner = "error", requeue |-> 0,
                      statusWrite |-> DeferredStatusUpdate(TRUE), statusErr |-> FALSE,
                      need |-> d.need, finished |-> d.finalizer, gcFailed |-> FALSE,
                      dropped |-> {}, site |-> d.site,
                      k |-> IF d.site = fault.site THEN fault.k ELSE 0]]
        \* reconcileNormal came to n; write: the deferred function updates the status
        normal(n, write) ==
            [c |-> [c EXCEPT !.cm = n.cm, !.svc = n.svc, !.yas = n.yas,
                             !.pa[p].finalizer = IF n.finalizer THEN TRUE ELSE @,
                             !.pa[p].status =
                                   IF write /\ ~fault.status THEN n.status ELSE @],
             out |-> [p |-> p, path |-> "normal", inner |-> n.inner,
                      err |-> n.inner = "error" \/ (write /\ fault.status),
                      requeue |-> IF n.inner = "requeue" THEN RequeueAfter ELSE 0,
                      statusWrite |-> write, statusErr |-> write /\ fault.status,
                      need |-> n.need, finished |-> n.finished,
                      gcFailed |-> fault.gc # {}, dropped |-> {},
                      site |-> n.site,
                      k |-> IF n.site = fault.site THEN fault.k ELSE 0]]
    IN  IF ~parent.exists THEN done("notfound", "ok", FALSE, "none")
        ELSE IF fault.site = "getPA" THEN done("geterr", "error", TRUE, "getPA")
        ELSE IF parent.deleting
        THEN deleted(reconcileDelete(c.yas, parent, fault, sharedLoopVar, mapOrder))
        ELSE normal(reconcileNormal(c.cm, c.svc, c.yas, parent, p, parent.status,
                                    fault, sharedLoopVar, mapOrder),
                    DeferredStatusUpdate(FALSE))

-----------------------------------------------------------------------------
(* The state machine *)

Cluster == [pa |-> pa, cm |-> cm, svc |-> svc, yas |-> yas]

\* the annotation payloads a parent may carry
AnnBoth ==
    (AnnDeployments :> JsonArray(<<Template("x", "dep-x")>>))
    @@ (AnnServices :> JsonArray(<<Template("x", "svc-x")>>))
AnnServiceOnly == AnnServices :> JsonArray(<<Template("x", "svc-x")>>)
AnnMalformed == AnnDeployments :> Malformed
Annotations == {EmptyAnn, AnnBoth, AnnServiceOnly, AnnMalformed}

\* the range loops of annotationToComponent take the address of a field of
\* their loop variable; the code base is built with a Go release before 1.22,
\* where that is one variable for the whole loop. The payloads of Annotations
\* have at most one template per array, for which both semantics agree.
SharedLoopVar == TRUE

\* the longest desired list: one catalog component and one from annotations
MaxComponents == 2

\* one failing call on the main path, or one failing garbage collection call,
\* or a failing status update at the end of a pass in which no other call fails
Faults ==
    {Fault(s, 0, {}, FALSE) : s \in {"none", "getPA", "paUpdate"}}
    \cup {Fault(s, k, {}, FALSE) :
            s \in {"cmUpsert", "svcUpsert", "yasGet", "yasCreate", "yasPatch"},
            k \in 1..MaxComponents}
    \cup {Fault("none", 0, {g}, FALSE) : g \in GCSites}
    \cup {Fault("none", 0, {}, TRUE), Fault("paUpdate", 0, {}, TRUE)}

\* all orders in which the keys of a map can be visited
Perms(S) ==
    {s \in [1..Cardinality(S) -> S] : \A i, j \in DOMAIN s : i # j => s[i] # s[j]}

ServiceNames(annotation) ==
    IF AnnServices \in DOMAIN annotation
    THEN SeqNames(Unmarshal(annotation[AnnServices]).val)
    ELSE {}

NewParent(version, security, poolName, annotations) ==
    [exists |-> TRUE, deleting |-> FALSE, finalizer |-> FALSE, version |-> version,
     security |-> security, poolName |-> poolName, annotations |-> annotations,
     status |-> EmptyStatus]

\* a YurtAppSet somebody else created: no generated-by label, its own pool
ForeignYas ==
    [exists |-> TRUE, owners |-> <<OwnerRef(ExtOwner, TRUE)>>, labelled |-> FALSE,
     pools |-> <<Pool(ExtPool, 2)>>, statusPools |-> {ExtPool}, replicasMatch |-> TRUE]

\* the catalog lists' backing arrays have no element beyond the lists' lengths
NoSpare == [security \in BOOLEAN, version \in DOMAIN SecurityComponents \cup DOMAIN NoSectyComponents |-> <<>>]

\* no pass of the parent is between reading a YurtAppSet and writing it
IdleFlight == [phase |-> "idle", path |-> "none", k |-> 0, ready |-> 0, old |-> NoYas]

\* no payload is being resolved
Idle ==
    [in |-> [annotation |-> EmptyAnn, sharedLoopVar |-> FALSE, mapOrder |-> <<>>],
     called |-> FALSE, out |-> [err |-> FALSE, components |-> <<>>]]

InitOf(parents, foreigns) ==
    /\ \E pool2 \in PoolNames :
            pa = [p \in Parents |->
                    IF p \in parents
                    THEN NewParent("v1", FALSE, IF p = "pa1" THEN "pl1" ELSE pool2,
                                   EmptyAnn)
                    ELSE GoneParent]
    /\ cm = [n \in CMNames |-> NoObject]
    /\ svc = [n \in CompNames |-> NoObject]
    /\ \E foreign \in foreigns :
            yas = [n \in CompNames |-> IF foreign /\ n = "x" THEN ForeignYas ELSE NoYas]
    /\ last = NoPass
    /\ desiredAt = [p \in Parents |-> {}]
    /\ edits = 0
    /\ inflight = [p \in Parents |-> IdleFlight]
    /\ mem = NoSpare
    /\ resolve = Idle

\* what the pass leaves behind for the next one: the record of the pass, with
\* the components the previous finished pass desired and this one does not
PassRecord(p, out) ==
    [out EXCEPT !.dropped = IF out.path = "normal" /\ out.finished
                            THEN desiredAt[p] \ out.need ELSE {}]

DesiredAfter(p, out) ==
    IF out.path = "normal" /\ out.finished
    THEN [desiredAt EXCEPT ![p] = out.need]
    ELSE desiredAt

\* the work queue hands parent p to Reconcile; faults: the failures the API
\* calls of the pass may show
DoReconcile(p, faults) ==
    \E fault \in faults :
        \E mapOrder \in Perms(ServiceNames(pa[p].annotations)) :
            \E r \in {Reconcile(Cluster, p, fault, SharedLoopVar, mapOrder)} :
                /\ pa' = r.c.pa
                /\ cm' = r.c.cm
                /\ svc' = r.c.svc
                /\ yas' = r.c.yas
                /\ last' = PassRecord(p, r.out)
                /\ desiredAt' = DesiredAfter(p, r.out)
                /\ UNCHANGED <<edits, resolve, inflight, mem>>

\* a user changes the version, the security mode or the annotations of a
\* parent; annotations: the payloads the user may set
EditSpec(p, annotations) ==
    /\ pa[p].exists
    /\ edits < MaxEdits
    /\ \/ \E v \in Versions \ {pa[p].version} : pa' = [pa EXCEPT ![p].version = v]
       \/ pa' = [pa EXCEPT ![p].security = ~@]
       \/ \E a \in annotations \ {pa[p].annotations} :
                pa' = [pa EXCEPT ![p].annotations = a]
    /\ edits' = edits + 1
    /\ last' = NoPass
    /\ UNCHANGED <<cm, svc, yas, desiredAt, resolve, inflight, mem>>

\* a user deletes a parent: the API server sets the deletion timestamp when
\* the object has a finalizer and removes the object at once when it has none
RequestDelete(p) ==
    /\ pa[p].exists
    /\ ~pa[p].deleting
    /\ pa' = [pa EXCEPT ![p] = IF @.finalizer THEN [@ EXCEPT !.deleting = TRUE]
                                 ELSE [GoneParent EXCEPT !.poolName = pa[p].poolName]]
    /\ last' = NoPass
    /\ UNCHANGED <<cm, svc, yas, desiredAt, edits, resolve, inflight, mem>>

\* the YurtAppSet controller reports the pools of the topology in the status,
\* with the ready replicas equal to the replicas or not
YurtAppSetController(n) ==
    /\ yas[n].exists
    /\ \E match \in BOOLEAN :
            /\ yas' = [yas EXCEPT ![n].statusPools = SeqNames(yas[n].pools),
                                  ![n].replicasMatch = match]
            /\ yas' # yas
    /\ last' = NoPass
    /\ UNCHANGED <<pa, cm, svc, desiredAt, edits, resolve, inflight, mem>>

NextOf(parents, faults, annotations) ==
    \/ \E p \in parents : DoReconcile(p, faults)
    \/ \E p \in parents : EditSpec(p, annotations)
    \/ \E p \in parents : RequestDelete(p)
    \/ \E n \in CompNames : YurtAppSetController(n)

\* one parent, every failure
Init == InitOf({"pa1"}, BOOLEAN)
Next == NextOf({"pa1"}, Faults, Annotations)
Spec == Init /\ [][Next]_vars

\* two parents that share the namespace, without annotations; only garbage
\* collection calls fail
SharedFaults == {NoFault} \cup {Fault("none", 0, {g}, FALSE) : g \in GCSites}
InitShared == InitOf(Parents, {FALSE})
NextShared == NextOf(Parents, SharedFaults, {EmptyAnn})
SpecShared == InitShared /\ [][NextShared]_vars

-----------------------------------------------------------------------------
(* Convergence: no failing call, no external change but the YurtAppSet       *)
(* controller reporting every pool of the topology with all replicas ready   *)

WellFormed == Annotations \ {AnnMalformed}

InitLive ==
    /\ \E v \in Versions, s \in BOOLEAN, a \in WellFormed :
            pa = [p \in Parents |->
                    IF p = "pa1" THEN NewParent(v, s, "pl1", a) ELSE GoneParent]
    /\ cm = [n \in CMNames |-> NoObject]
    /\ svc = [n \in CompNames |-> NoObject]
    /\ \E foreign \in BOOLEAN :
            yas = [n \in CompNames |-> IF foreign /\ n = "x" THEN ForeignYas ELSE NoYas]
    /\ last = NoPass
    /\ desiredAt = [p \in Parents |-> {}]
    /\ edits = 0
    /\ inflight = [p \in Parents |-> IdleFlight]
    /\ mem = NoSpare
    /\ resolve = Idle

YurtAppSetControllerReady(n) ==
    /\ yas[n].exists
    /\ yas' = [yas EXCEPT ![n].statusPools = SeqNames(yas[n].pools),
                          ![n].replicasMatch = TRUE]
    /\ yas' # yas
    /\ last' = NoPass
    /\ UNCHANGED <<pa, cm, svc, desiredAt, edits, resolve, inflight, mem>>

ReconcileLive == DoReconcile("pa1", {NoFault})

NextLive ==
    \/ ReconcileLive
    \/ \E n \in CompNames : YurtAppSetControllerReady(n)

\* ENABLED <<ReconcileLive>>_vars as a state predicate: a pass would change
\* the cluster or what the pass leaves behind
ReconcileLiveEnabled ==
    \E mapOrder \in Perms(ServiceNames(pa["pa1"].annotations)) :
        \E r \in {Reconcile(Cluster, "pa1", NoFault, SharedLoopVar, mapOrder)} :
            \/ r.c # Cluster
            \/ PassRecord("pa1", r.out) # last
            \/ DesiredAfter("pa1", r.out) # desiredAt

\* the steps of NextLive that are passes: the YurtAppSet controller's steps
\* reset the record of the last pass
ReconcileLiveStep == last'.p = "pa1"

\* The parent is re-triggered as long as a pass changes anything (the requeue
\* after 10 seconds and the watches on the children), and the YurtAppSet
\* controller eventually reports. The first fairness condition is
\* WF_vars(ReconcileLive) written out.
SpecLive ==
    /\ InitLive
    /\ [][NextLive]_vars
    /\ ([]<>(~ReconcileLiveEnabled) \/ []<><<ReconcileLiveStep>>_vars)
    /\ \A n \in CompNames : WF_vars(YurtAppSetControllerReady(n))

-----------------------------------------------------------------------------
(* Deletion: no failing call; the user edits the parent and deletes it, the  *)
(* work queue hands the parent to Reconcile as long as a pass changes        *)
(* anything                                                                  *)

NextDeleting ==
    \/ ReconcileLive
    \/ EditSpec("pa1", Annotations)
    \/ RequestDelete("pa1")
    \/ \E n \in CompNames : YurtAppSetControllerReady(n)

\* The first fairness condition is WF_vars(ReconcileLive) written out, as in
\* SpecLive.
SpecDeleting ==
    /\ InitLive
    /\ [][NextDeleting]_vars
    /\ ([]<>(~ReconcileLiveEnabled) \/ []<><<ReconcileLiveStep>>_vars)
    /\ \A n \in CompNames : WF_vars(YurtAppSetControllerReady(n))

-----------------------------------------------------------------------------
(* annotationToComponent on its own: payloads of up to MaxTemplates          *)
(* templates per array, names distinct within an array                       *)

MaxTemplates == 2

TemplateNames == {"x", "y", "z"}
DeploymentSpecOf == ("x" :> "dep-x") @@ ("y" :> "dep-y") @@ ("z" :> "dep-z")
ServiceSpecOf == ("x" :> "svc-x") @@ ("y" :> "svc-y") @@ ("z" :> "svc-z")

NameSeqs ==
    UNION {{s \in [1..k -> TemplateNames] : NoDup(s)} : k \in 0..MaxTemplates}

Payloads(specOf) ==
    {JsonArray([i \in DOMAIN s |-> Template(s[i], specOf[s[i]])]) : s \in NameSeqs}
    \cup {Malformed, JsonNull}

ResolveAnnotations ==
    {EmptyAnn}
    \cup {AnnDeployments :> d : d \in Payloads(DeploymentSpecOf)}
    \cup {AnnServices :> s : s \in Payloads(ServiceSpecOf)}
    \cup {(AnnDeployments :> d) @@ (AnnServices :> s) :
            d \in Payloads(DeploymentSpecOf), s \in Payloads(ServiceSpecOf)}

InitResolve ==
    /\ pa = [p \in Parents |-> GoneParent]
    /\ cm = [n \in CMNames |-> NoObject]
    /\ svc = [n \in CompNames |-> NoObject]
    /\ yas = [n \in CompNames |-> NoYas]
    /\ last = NoPass
    /\ desiredAt = [p \in Parents |-> {}]
    /\ edits = 0
    /\ inflight = [p \in Parents |-> IdleFlight]
    /\ mem = NoSpare
    /\ \E a \in ResolveAnnotations, shared \in BOOLEAN :
        \E order \in Perms(ServiceNames(a)) :
            resolve = [Idle EXCEPT !.in = [annotation |-> a, sharedLoopVar |-> shared,
                                           mapOrder |-> order]]

CallAnnotationToComponent ==
    /\ ~resolve.called
    /\ resolve' = [resolve EXCEPT !.called = TRUE,
                                  !.out = annotationToComponent(resolve.in.annotation,
                                                                resolve.in.sharedLoopVar,
                                                                resolve.in.mapOrder)]
    /\ UNCHANGED <<pa, cm, svc, yas, last, desiredAt, edits, inflight, mem>>

NextResolve == CallAnnotationToComponent
SpecResolve == InitResolve /\ [][NextResolve]_vars

-----------------------------------------------------------------------------
(* Desired-state resolution on its own: every version key, both security     *)
(* modes, every payload of ResolveAnnotations                                 *)

CatalogVersions == Versions \cup {"v2"}

InitCatalog ==
    /\ pa = [p \in Parents |-> GoneParent]
    /\ cm = [n \in CMNames |-> NoObject]
    /\ svc = [n \in CompNames |-> NoObject]
    /\ yas = [n \in CompNames |-> NoYas]
    /\ last = NoPass
    /\ desiredAt = [p \in Parents |-> {}]
    /\ edits = 0
    /\ inflight = [p \in Parents |-> IdleFlight]
    /\ mem = NoSpare
    /\ \E v \in CatalogVersions, s \in BOOLEAN, a \in ResolveAnnotations :
        \E order \in Perms(ServiceNames(a)) :
            resolve = [Idle EXCEPT !.in = [annotation |-> a, sharedLoopVar |-> SharedLoopVar,
                                           mapOrder |-> order, version |-> v,
                                           security |-> s]]

\* the head of reconcileComponent and of reconcileDelete: the desired list of
\* a parent with that version, security mode and annotations
CallDesiredComponents ==
    /\ ~resolve.called
    /\ resolve' = [resolve EXCEPT
                        !.called = TRUE,
                        !.out = DesiredComponents(
                                    NewParent(resolve.in.version, resolve.in.security,
                                              "pl1", resolve.in.annotation),
                                    resolve.in.sharedLoopVar, resolve.in.mapOrder)]
    /\ UNCHANGED <<pa, cm, svc, yas, last, desiredAt, edits, inflight, mem>>

NextCatalog == CallDesiredComponents
SpecCatalog == InitCatalog /\ [][NextCatalog]_vars

-----------------------------------------------------------------------------
(* Passes of different parents in parallel (MaxConcurrentReconciles workers): *)
(* a pass is split where it has read a YurtAppSet and has not yet written it. *)
(* Two parents without annotations, no failing call. The parent itself is     *)
(* not changed while one of its passes is under way.                          *)

\* the desired list of the pass of parent p (no annotation: no decode error)
RaceDesired(p) == DesiredComponents(pa[p], SharedLoopVar, <<>>).components

RaceRecord(p, path, inner, finished) ==
    [NoPass EXCEPT !.p = p, !.path = path, !.inner = inner,
                   !.err = inner = "error",
                   !.requeue = IF inner = "requeue" THEN RequeueAfter ELSE 0,
                   !.statusWrite = DeferredStatusUpdate(path = "delete"),
                   !.need = SeqNames(RaceDesired(p)), !.finished = finished,
                   !.site = IF inner = "error" THEN "yasPatch" ELSE "none"]

\* the status a normal pass persists: ready components counted, inner as
\* reconcileNormal returns
RaceStatus(p, ready, inner) ==
    LET counted == SetComponentCounts(
                        SetPlatformAdminCondition(pa[p].status, ConfigmapAvailableCondition,
                                                  Condition("True", "", "")),
                        ready, Len(RaceDesired(p)))
    IN  IF inner = "ok"
        THEN [SetPlatformAdminCondition(counted, ComponentAvailableCondition,
                                        Condition("True", "", ""))
                EXCEPT !.ready = TRUE]
        ELSE SetPlatformAdminCondition(counted, ComponentAvailableCondition,
                Condition("False", ComponentProvisioningReason,
                          IF inner = "error" THEN ErrorText("yasPatch") ELSE ""))

\* the normal pass of p leaves the loop with inner: the deferred counts, the
\* condition, the parent update and the deferred status update
RaceEndNormal(p, ready, inner, finished) ==
    /\ pa' = [pa EXCEPT ![p].status = RaceStatus(p, ready, inner),
                        ![p].finalizer = IF inner = "ok" THEN TRUE ELSE @]
    /\ last' = RaceRecord(p, "normal", inner, finished)
    /\ desiredAt' = DesiredAfter(p, RaceRecord(p, "normal", inner, finished))
    /\ inflight' = [inflight EXCEPT ![p] = IdleFlight]

\* the normal pass of p comes to component k with svcs and yass on the server:
\* handleService and the Get of the YurtAppSet, or the end of the loop with
\* the two garbage collection scans
RaceNormalAt(p, k, ready, svcs, yass) ==
    IF k <= Len(RaceDesired(p))
    THEN /\ svc' = handleService(svcs, p, RaceDesired(p)[k], FALSE).svc
         /\ yas' = yass
         /\ inflight' = [inflight EXCEPT ![p] =
                            [phase |-> "got", path |-> "normal", k |-> k, ready |-> ready,
                             old |-> yass[RaceDesired(p)[k].Name]]]
         /\ last' = NoPass
         /\ UNCHANGED <<pa, desiredAt>>
    ELSE /\ svc' = CollectGarbage(svcs, SeqNames(RaceDesired(p)), p, NoObject, FALSE, FALSE)
         /\ yas' = CollectGarbage(yass, SeqNames(RaceDesired(p)), p, NoYas, FALSE, FALSE)
         /\ RaceEndNormal(p, ready,
                          IF ready = Len(RaceDesired(p)) THEN "ok" ELSE "requeue", TRUE)

\* Reconcile of a parent without deletion timestamp up to the first Get of a
\* YurtAppSet
RaceBeginNormal(p) ==
    /\ inflight[p].phase = "idle"
    /\ pa[p].exists /\ ~pa[p].deleting
    /\ cm' = reconcileConfigmap(cm, pa[p], p, NoFault).cm
    /\ RaceNormalAt(p, 1, 0, svc, yas)
    /\ UNCHANGED <<edits, resolve, mem>>

\* the normal pass from the answer of the Get for component k on: Create after
\* not-found (refused if the object exists by now), nothing if the status
\* lists the pool, else the merge patch of the copy that was read, applied to
\* the object the server has now; then on to the next Get or to the end
RacePutNormal(p) ==
    /\ inflight[p].phase = "got" /\ inflight[p].path = "normal"
    /\ LET f == inflight[p]
           dc == RaceDesired(p)[f.k]
           old == f.old
           cur == yas[dc.Name]
           pool == pa[p].poolName
       IN  IF ~old.exists
           THEN IF cur.exists
                THEN /\ RaceEndNormal(p, f.ready, "error", FALSE)
                     /\ UNCHANGED <<svc, yas>>
                ELSE RaceNormalAt(p, f.k + 1, f.ready, svc,
                        [yas EXCEPT ![dc.Name] = handleYurtAppSet(p, pool, dc, FALSE).yas])
           ELSE IF pool \in old.statusPools
           THEN RaceNormalAt(p, f.k + 1,
                             IF ComponentReady(old, pool) THEN f.ready + 1 ELSE f.ready,
                             svc, yas)
           ELSE IF ~cur.exists
           THEN /\ RaceEndNormal(p, f.ready, "error", FALSE)
                /\ UNCHANGED <<svc, yas>>
           ELSE RaceNormalAt(p, f.k + 1, f.ready, svc,
                    [yas EXCEPT ![dc.Name] =
                        MergePatch(cur, old,
                                   [old EXCEPT !.pools = JoinPools(@, pool),
                                               !.owners = SetOwnerReference(@, p)])])
    /\ UNCHANGED <<cm, edits, resolve, mem>>

\* the deletion pass of p leaves the loop
RaceEndDelete(p, inner) ==
    /\ pa' = [pa EXCEPT ![p] = IF inner = "ok"
                                 THEN [GoneParent EXCEPT !.poolName = pa[p].poolName]
                                 ELSE @]
    /\ last' = RaceRecord(p, "delete", inner, inner = "ok")
    /\ inflight' = [inflight EXCEPT ![p] = IdleFlight]

\* the deletion pass of p comes to component k: the Get of the YurtAppSet, or
\* the end of the loop with the removal of the finalizer
RaceDeleteAt(p, k, yass) ==
    /\ yas' = yass
    /\ IF k <= Len(RaceDesired(p))
       THEN /\ inflight' = [inflight EXCEPT ![p] =
                               [phase |-> "got", path |-> "delete", k |-> k, ready |-> 0,
                                old |-> yass[RaceDesired(p)[k].Name]]]
            /\ last' = NoPass
            /\ pa' = pa
       ELSE RaceEndDelete(p, "ok")

\* Reconcile of a parent with deletion timestamp up to the first Get
RaceBeginDelete(p) ==
    /\ inflight[p].phase = "idle"
    /\ pa[p].exists /\ pa[p].deleting
    /\ RaceDeleteAt(p, 1, yas)
    /\ UNCHANGED <<cm, svc, desiredAt, edits, resolve, mem>>

\* the deletion pass from the answer of the Get for component k on: skip after
\* an error, else the merge patch of the copy that was read without the
\* parent's pool, applied to the object the server has now
RacePutDelete(p) ==
    /\ inflight[p].phase = "got" /\ inflight[p].path = "delete"
    /\ LET f == inflight[p]
           dc == RaceDesired(p)[f.k]
           old == f.old
           cur == yas[dc.Name]
           removed == RemovePool(old.pools, pa[p].poolName)
       IN  IF ~old.exists THEN RaceDeleteAt(p, f.k + 1, yas)
           ELSE IF removed.panic
           THEN /\ RaceEndDelete(p, "panic")
                /\ yas' = yas
           ELSE IF ~cur.exists
           THEN /\ RaceEndDelete(p, "error")
                /\ yas' = yas
           ELSE RaceDeleteAt(p, f.k + 1,
                    [yas EXCEPT ![dc.Name] =
                        MergePatch(cur, old, [old EXCEPT !.pools = removed.pools])])
    /\ UNCHANGED <<cm, svc, desiredAt, edits, resolve, mem>>

\* the parent is deleted by its user while no pass of it is under way
RaceRequestDelete(p) ==
    /\ inflight[p].phase = "idle"
    /\ RequestDelete(p)

NextRace ==
    \/ \E p \in Parents : RaceBeginNormal(p)
    \/ \E p \in Parents : RacePutNormal(p)
    \/ \E p \in Parents : RaceBeginDelete(p)
    \/ \E p \in Parents : RacePutDelete(p)
    \/ \E p \in Parents : RaceRequestDelete(p)
    \/ \E n \in CompNames : YurtAppSetController(n)

SpecRace == InitShared /\ [][NextRace]_vars

-----------------------------------------------------------------------------
(* The desired list in the memory of the process: a catalog list is a Go     *)
(* slice of r.Configration, and append(desireComponents, additional...)      *)
(* writes into that slice's backing array when the array has room beyond the *)
(* slice's length, and into a new array otherwise. How much room the arrays  *)
(* of the catalog have is decided where the catalog is built: any amount up  *)
(* to MaxSpare. Two parents of one version and mode, passes in parallel.     *)

MaxSpare == 1

\* the elements beyond the length in the backing array of the parent's catalog
\* list; a key of neither catalog gives a nil slice, which has no array
AliasSpare(parent) ==
    IF <<parent.security, parent.version>> \in DOMAIN mem
    THEN mem[parent.security, parent.version]
    ELSE <<>>

\* append within capacity: xs is written over the first elements beyond the length
GoAppendWrite(slots, xs) ==
    [i \in DOMAIN slots |-> IF i <= Len(xs) THEN xs[i] ELSE slots[i]]

\* the slice desireComponents of the pass of p under way, read now
AliasSeen(p) ==
    IF inflight[p].shared
    THEN CatalogComponents(pa[p]) \o SubSeq(AliasSpare(pa[p]), 1, inflight[p].extra)
    ELSE inflight[p].list

AliasFlight(shared, extra, list) ==
    [phase |-> "resolved", path |-> "normal", k |-> 0, ready |-> 0, old |-> NoYas,
     shared |-> shared, extra |-> extra, list |-> list]

InitAlias ==
    /\ \E a1, a2 \in WellFormed :
            pa = [p \in Parents |->
                    NewParent("v1", FALSE, IF p = "pa1" THEN "pl1" ELSE "pl2",
                              IF p = "pa1" THEN a1 ELSE a2)]
    /\ cm = [n \in CMNames |-> NoObject]
    /\ svc = [n \in CompNames |-> NoObject]
    /\ yas = [n \in CompNames |-> NoYas]
    /\ last = NoPass
    /\ desiredAt = [p \in Parents |-> {}]
    /\ edits = 0
    /\ resolve = Idle
    /\ inflight = [p \in Parents |-> IdleFlight]
    /\ \E spare \in 0..MaxSpare :
            mem = [k \in DOMAIN NoSpare |-> [i \in 1..spare |-> Nil]]

\* Reconcile of a parent without deletion timestamp up to the append that
\* makes desireComponents
AliasResolve(p) ==
    /\ inflight[p].phase = "idle"
    /\ pa[p].exists /\ ~pa[p].deleting
    /\ cm' = reconcileConfigmap(cm, pa[p], p, NoFault).cm
    /\ \E order \in Perms(ServiceNames(pa[p].annotations)) :
        \E add \in {annotationToComponent(pa[p].annotations, SharedLoopVar, order)} :
            /\ ~add.err
            /\ IF Len(add.components) = 0
               THEN /\ mem' = mem
                    /\ inflight' = [inflight EXCEPT ![p] = AliasFlight(TRUE, 0, <<>>)]
               ELSE IF Len(add.components) <= Len(AliasSpare(pa[p]))
               THEN /\ mem' = [mem EXCEPT ![pa[p].security, pa[p].version] =
                                    GoAppendWrite(@, add.components)]
                    /\ inflight' = [inflight EXCEPT ![p] =
                                        AliasFlight(TRUE, Len(add.components), <<>>)]
               ELSE /\ mem' = mem
                    /\ inflight' = [inflight EXCEPT ![p] =
                                        AliasFlight(FALSE, 0,
                                            CatalogComponents(pa[p]) \o add.components)]
    /\ last' = NoPass
    /\ UNCHANGED <<pa, svc, yas, desiredAt, edits, resolve>>

\* the status the pass persists: counts by the deferred function, conditions
\* by reconcileNormal (none for the component condition when the pass panics)
AliasStatus(p, ready, total, inner) ==
    LET counted == SetComponentCounts(
                        SetPlatformAdminCondition(pa[p].status, ConfigmapAvailableCondition,
                                                  Condition("True", "", "")),
                        ready, total)
    IN  IF inner = "ok"
        THEN [SetPlatformAdminCondition(counted, ComponentAvailableCondition,
                                        Condition("True", "", ""))
                EXCEPT !.ready = TRUE]
        ELSE IF inner = "requeue"
        THEN SetPlatformAdminCondition(counted, ComponentAvailableCondition,
                Condition("False", ComponentProvisioningReason, ""))
        ELSE counted

AliasRecord(p, list, inner) ==
    [NoPass EXCEPT !.p = p, !.path = "normal", !.inner = inner,
                   !.requeue = IF inner = "requeue" THEN RequeueAfter ELSE 0,
                   !.statusWrite = DeferredStatusUpdate(FALSE),
                   !.need = SeqNames(list), !.finished = inner # "panic",
                   !.site = IF inner = "panic" THEN "yasCreate" ELSE "none"]

\* the pass of p came through the loop over list with loop
AliasEnd(p, list, loop, inner) ==
    /\ svc' = IF loop.out = "done"
              THEN CollectGarbage(loop.svc, SeqNames(list), p, NoObject, FALSE, FALSE)
              ELSE loop.svc
    /\ yas' = IF loop.out = "done"
              THEN CollectGarbage(loop.yas, SeqNames(list), p, NoYas, FALSE, FALSE)
              ELSE loop.yas
    /\ pa' = [pa EXCEPT ![p].status = AliasStatus(p, loop.ready, Len(list), inner),
                        ![p].finalizer = IF inner = "ok" THEN TRUE ELSE @]
    /\ last' = AliasRecord(p, list, inner)
    /\ desiredAt' = DesiredAfter(p, AliasRecord(p, list, inner))

\* the rest of the pass: the loop over desireComponents as the slice reads
\* now, the garbage collection, the status
AliasFinish(p) ==
    /\ inflight[p].phase = "resolved"
    /\ \E list \in {AliasSeen(p)} :
        \E loop \in {ComponentLoop(svc, yas, list, 1, 0, p, pa[p].poolName, NoFault)} :
            AliasEnd(p, list, loop,
                     IF loop.out = "panic" THEN "panic"
                     ELSE IF loop.ready = Len(list) THEN "ok" ELSE "requeue")
    /\ inflight' = [inflight EXCEPT ![p] = IdleFlight]
    /\ UNCHANGED <<cm, edits, resolve, mem>>

NextAlias ==
    \/ \E p \in Parents : AliasResolve(p)
    \/ \E p \in Parents : AliasFinish(p)
    \/ \E n \in CompNames : YurtAppSetController(n)

SpecAlias == InitAlias /\ [][NextAlias]_vars

-----------------------------------------------------------------------------
(* The garbage collection of Services between its List and its calls of      *)
(* removeOwner: removeOwner works on the copy the List returned. Delete      *)
(* carries no precondition and removes the object as it is by then; Update   *)
(* carries the resource version of the copy and is refused when the object   *)
(* has changed since. Two parents, passes in parallel, no failing call.      *)

\* removeOwner on the listed copy stale of an object that is cur by now
StaleRemoveOwner(cur, stale, uid, absent) ==
    LET removed == removeOwner(stale, uid, absent, FALSE)
    IN  IF ~stale.exists \/ removed = stale THEN cur
        ELSE IF removed = absent THEN absent
        ELSE IF cur = stale THEN removed
        ELSE cur

ListedFlight(ready, list, items) ==
    [phase |-> "listed", path |-> "normal", k |-> 0, ready |-> ready, old |-> NoYas,
     list |-> list, items |-> items]

\* the pass came through the component loop over list with loop and lists the
\* labelled Services
CollectListed(p, list, loop) ==
    /\ loop.out = "done"
    /\ svc' = loop.svc
    /\ yas' = loop.yas
    /\ inflight' = [inflight EXCEPT ![p] =
            ListedFlight(loop.ready, list,
                         [n \in CompNames |->
                            IF loop.svc[n].exists /\ loop.svc[n].labelled
                            THEN loop.svc[n] ELSE NoObject])]

\* Reconcile of a parent without deletion timestamp up to the List of Services
CollectBegin(p) ==
    /\ inflight[p].phase = "idle"
    /\ pa[p].exists /\ ~pa[p].deleting
    /\ cm' = reconcileConfigmap(cm, pa[p], p, NoFault).cm
    /\ \E desired \in {DesiredComponents(pa[p], SharedLoopVar, <<>>)} :
        \E loop \in {ComponentLoop(svc, yas, desired.components, 1, 0, p,
                                   pa[p].poolName, NoFault)} :
            CollectListed(p, desired.components, loop)
    /\ last' = NoPass
    /\ UNCHANGED <<pa, desiredAt, edits, resolve, mem>>

\* the rest of the pass: removeOwner on the listed Services that are not
\* needed, the garbage collection of YurtAppSets, the status
CollectEnd(p) ==
    /\ inflight[p].phase = "listed"
    /\ \E list \in {inflight[p].list} :
        \E inner \in {IF inflight[p].ready = Len(list) THEN "ok" ELSE "requeue"} :
            /\ svc' = [n \in CompNames |->
                        IF n \in SeqNames(list) THEN svc[n]
                        ELSE StaleRemoveOwner(svc[n], inflight[p].items[n], p, NoObject)]
            /\ yas' = CollectGarbage(yas, SeqNames(list), p, NoYas, FALSE, FALSE)
            /\ pa' = [pa EXCEPT
                        ![p].status = AliasStatus(p, inflight[p].ready, Len(list), inner),
                        ![p].finalizer = IF inner = "ok" THEN TRUE ELSE @]
            /\ last' = AliasRecord(p, list, inner)
            /\ desiredAt' = DesiredAfter(p, AliasRecord(p, list, inner))
    /\ inflight' = [inflight EXCEPT ![p] = IdleFlight]
    /\ UNCHANGED <<cm, edits, resolve, mem>>

\* a user changes a parent no pass of which is under way
CollectEdit(p) ==
    /\ inflight[p].phase = "idle"
    /\ EditSpec(p, {EmptyAnn})

NextCollect ==
    \/ \E p \in Parents : CollectBegin(p)
    \/ \E p \in Parents : CollectEnd(p)
    \/ \E p \in Parents : CollectEdit(p)
    \/ \E n \in CompNames : YurtAppSetControllerReady(n)

SpecCollect == InitShared /\ [][NextCollect]_vars

-----------------------------------------------------------------------------
(* Properties *)

BothConditionsTrue(status) ==
    \A t \in ConditionTypes : status.conditions[t].status = "True"

PoolEntryNames(y) == SeqNames(y.pools)

\* the labelled child still has parent p among its owners
StillOwnedBy(obj, p) == obj.exists /\ obj.labelled /\ p \in OwnerUids(obj.owners)

C2_ReadyOnlyWithBothConditions ==
    /\ \A p \in Parents :
            pa[p].exists /\ pa[p].status.ready => BothConditionsTrue(pa[p].status)
    /\ last.path = "normal" /\ last.inner = "requeue" /\ ~last.err =>
            /\ pa[last.p].status.unreadyNum >= 1
            /\ ~pa[last.p].status.ready

\* C3: when a deletion pass has removed the finalizer, no YurtAppSet named by a
\* desired component still holds a pool entry of the parent's pool name.
C3_FinalizerRemovedAfterPoolsRemoved ==
    last.path = "delete" /\ last.finished =>
        \A n \in last.need :
            yas[n].exists => pa[last.p].poolName \notin PoolEntryNames(yas[n])

\* C4: from every reachable state, a normal pass with no failing call followed
\* by a second one leaves the cluster (children and parent) as the first one
\* left it.
C4_Idempotent ==
    \A p \in Parents :
        pa[p].exists /\ ~pa[p].deleting =>
            \A order \in Perms(ServiceNames(pa[p].annotations)) :
                \A first \in {Reconcile(Cluster, p, NoFault, SharedLoopVar, order)} :
                    Reconcile(first.c, p, NoFault, SharedLoopVar, order).c = first.c

\* C5: no YurtAppSet has two pool entries of the same name.
C5_OnePoolEntryPerName ==
    \A n \in CompNames :
        yas[n].exists =>
            \A i, j \in DOMAIN yas[n].pools :
                i # j => yas[n].pools[i].Name # yas[n].pools[j].Name

C5_Witness ==
    \E n \in CompNames :
        /\ yas[n].exists
        /\ Parents \subseteq OwnerUids(yas[n].owners)
        /\ \A p \in Parents : pa[p].exists /\ pa[p].poolName \in PoolEntryNames(yas[n])
        /\ Len(yas[n].pools) = Cardinality({pa[p].poolName : p \in Parents})

\* C6: after a pass that ran to the end of the component loop, no
\* labelled Service or YurtAppSet named by a component that the previous
\* finished pass desired and this one does not still has the parent as owner,
\* and none is left without owner.
C6_DroppedComponentsCollected ==
    last.path = "normal" /\ last.finished =>
        \A n \in last.dropped :
            /\ ~StillOwnedBy(svc[n], last.p)
            /\ ~StillOwnedBy(yas[n], last.p)
            /\ svc[n].exists /\ svc[n].labelled => svc[n].owners # <<>>
            /\ yas[n].exists /\ yas[n].labelled => yas[n].owners # <<>>

\* C7: with a well-formed payload, no failing call and the YurtAppSet
\* controller reporting ready, the parent eventually is ready with both
\* conditions true after a pass that returns success without requeue.
C7_Converges ==
    <>(/\ pa["pa1"].status.ready
       /\ BothConditionsTrue(pa["pa1"].status)
       /\ last.path = "normal" /\ last.inner = "ok" /\ ~last.err)

\* C8: for a payload that decodes, with names distinct within each array, the
\* result is one component per workload template, in order, carrying that
\* template and the exposure template of the same name if there is one,
\* followed by one exposure-only component per exposure template of no
\* workload template's name.
C8_OverrideMerge ==
    resolve.called /\ ~resolve.out.err =>
        LET ann == resolve.in.annotation
            W == IF AnnDeployments \in DOMAIN ann THEN ann[AnnDeployments].items ELSE <<>>
            E == IF AnnServices \in DOMAIN ann THEN ann[AnnServices].items ELSE <<>>
            serviceOf(n) ==
                IF n \in SeqNames(E)
                THEN (CHOOSE e \in Range(E) : e.Name = n).Spec ELSE Nil
            cs == resolve.out.components
        IN  /\ Len(cs) = Len(W) + Cardinality(SeqNames(E) \ SeqNames(W))
            /\ \A i \in DOMAIN W :
                    cs[i] = Component(W[i].Name, W[i].Spec, serviceOf(W[i].Name))
            /\ {cs[i] : i \in (Len(W) + 1)..Len(cs)} =
                    {Component(n, Nil, serviceOf(n)) : n \in SeqNames(E) \ SeqNames(W)}

\* C9: a normal pass that returns an error and whose status write succeeded
\* leaves a persisted status with a false condition that has a reason, and never one with both conditions true
\* and ready = true.
C9_ErrorVisibleInStatus ==
    last.path = "normal" /\ last.err /\ ~last.statusErr =>
        /\ \E t \in ConditionTypes :
                /\ pa[last.p].status.conditions[t].status = "False"
                /\ pa[last.p].status.conditions[t].reason # ""
        /\ ~(BothConditionsTrue(pa[last.p].status) /\ pa[last.p].status.ready)

\* C10: a normal pass ends in one of three ways: an error without requeue
\* delay; no error and a delay of 10 seconds, some desired component not being
\* ready; no error and no delay, every desired component being ready.
C10_ThreeOutcomes ==
    last.path = "normal" =>
        /\ last.inner \in {"ok", "requeue", "error"}
        /\ last.err => last.requeue = 0
        /\ last.requeue # 0 =>
                /\ last.requeue = RequeueAfter
                /\ ~last.statusErr => pa[last.p].status.unreadyNum >= 1
        /\ ~last.err /\ last.requeue = 0 => pa[last.p].status.unreadyNum = 0

\* C11: a normal pass that fails decoding the annotation payload returns an
\* error, changes no ConfigMap, Service or YurtAppSet, persists the
\* ComponentAvailable condition as false with the decode error text as
\* message, and persists no ready component count of an earlier pass.
C11_MalformedPayloadAborts ==
    [][(last'.path = "normal" /\ last'.site = "decode" /\ ~last'.statusErr) =>
            /\ last'.err
            /\ cm' = cm /\ svc' = svc /\ yas' = yas
            /\ pa'[last'.p].status.conditions[ComponentAvailableCondition] =
                    Condition("False", ComponentProvisioningReason, ErrorText("decode"))
            /\ pa'[last'.p].status.readyNum = 0]_vars

\* C12: the desired list begins with exactly the list stored under the version
\* in the catalog of the parent's security mode, and with nothing if that
\* catalog has no such key (whatever the other catalog has); what follows are
\* as many components as the annotations give; resolution fails only if a payload does not
\* decode, so without annotations the desired list is the catalog list, and
\* empty for a version key of neither catalog.
C12_CatalogSelection ==
    resolve.called =>
        LET in == resolve.in
            own == IF in.security THEN SecurityComponents ELSE NoSectyComponents
            stored == IF in.version \in DOMAIN own THEN own[in.version] ELSE <<>>
            decodes == \A k \in DOMAIN in.annotation : in.annotation[k].kind # "malformed"
            additional == annotationToComponent(in.annotation, in.sharedLoopVar, in.mapOrder)
            cs == resolve.out.components
        IN  /\ resolve.out.err <=> ~decodes
            /\ decodes =>
                    /\ Len(cs) = Len(stored) + Len(additional.components)
                    /\ SubSeq(cs, 1, Len(stored)) = stored
            /\ in.annotation = EmptyAnn => cs = stored
            /\ in.annotation = EmptyAnn
                    /\ in.version \notin DOMAIN SecurityComponents
                    /\ in.version \notin DOMAIN NoSectyComponents => cs = <<>>

\* a version key of the other mode's catalog only: nothing is selected
C12_Witness ==
    /\ resolve.called
    /\ ~resolve.in.security
    /\ resolve.in.version \in DOMAIN SecurityComponents \ DOMAIN NoSectyComponents
    /\ resolve.in.annotation = EmptyAnn
    /\ ~resolve.out.err
    /\ resolve.out.components = <<>>

\* the desired components of parent p that a pass starting now counts ready
\* according to C14: no Deployment, or the YurtAppSet of the component's name
\* lists the parent's pool in its status with all replicas ready
C14_ReadyIndices(p, dcs) ==
    {i \in DOMAIN dcs :
        \/ dcs[i].Deployment = Nil
        \/ /\ yas[dcs[i].Name].exists
           /\ pa[p].poolName \in yas[dcs[i].Name].statusPools
           /\ yas[dcs[i].Name].replicasMatch}

\* C14: a normal pass that ran through the whole component loop persists as
\* readyComponentNum the number of desired components that have no Deployment
\* or whose YurtAppSet, as the pass found it, lists the parent's pool with all
\* replicas ready (so none that the pass created or joined), and a component
\* without Deployment leaves no YurtAppSet created.
C14_PerComponentReadiness ==
    [][(last'.path = "normal" /\ last'.finished /\ ~last'.statusErr) =>
            \A order \in Perms(ServiceNames(pa[last'.p].annotations)) :
                \A d \in {DesiredComponents(pa[last'.p], SharedLoopVar, order)} :
                    /\ pa'[last'.p].status.readyNum =
                            Cardinality(C14_ReadyIndices(last'.p, d.components))
                    /\ \A i \in DOMAIN d.components :
                            d.components[i].Deployment = Nil /\ ~yas[d.components[i].Name].exists
                                => ~yas'[d.components[i].Name].exists]_vars

\* C15: a write of a deletion pass leaves every YurtAppSet either as the
\* server had it, or with the
\* pool entries it had except the one entry named by the parent's pool name
\* (the others with their content, nothing else of the object changed); a
\* YurtAppSet without an entry of that name is left as it was.
C15_OnlyOwnPoolEntryRemoved ==
    [][last'.path = "delete" =>
            \A n \in CompNames :
                \/ yas'[n] = yas[n]
                \/ /\ pa[last'.p].poolName \in PoolEntryNames(yas[n])
                   /\ Len(yas'[n].pools) = Len(yas[n].pools) - 1
                   /\ Range(yas'[n].pools) =
                        {e \in Range(yas[n].pools) : e.Name # pa[last'.p].poolName}
                   /\ yas'[n] = [yas[n] EXCEPT !.pools = yas'[n].pools]]_vars

\* C16: a write of a YurtAppSet's pool list by a pass of parent p changes
\* nothing but the entry of p's own pool name, measured against the list the
\* server holds when the write arrives: an entry of another name that is
\* there stays, one that is not there does not come back.
C16_NoLostPoolWrite ==
    [][\A p \in Parents :
            inflight[p].phase = "got" /\ inflight'[p] # inflight[p] =>
                \A n \in CompNames :
                    \A e \in (PoolNames \cup {ExtPool}) \ {pa[p].poolName} :
                        e \in PoolEntryNames(yas'[n]) <=> e \in PoolEntryNames(yas[n])]_vars

\* C17: a normal pass that ends with the error of a call made for component k
\* (Service upsert, YurtAppSet get, create or patch) returns an error without
\* requeue delay; the objects of the components after k and the objects of
\* no desired component are as before the pass, the YurtAppSet of component k
\* too (and its Service, if the Service upsert was the call that failed), and
\* the objects of the components before k are as a pass without failure
\* leaves them.
C17_AbortAtFailedComponent ==
    [][(last'.path = "normal" /\ last'.inner = "error"
            /\ last'.site \in {"svcUpsert", "yasGet", "yasCreate", "yasPatch"}) =>
        \A order \in Perms(ServiceNames(pa[last'.p].annotations)) :
            \A d \in {DesiredComponents(pa[last'.p], SharedLoopVar, order)} :
                \A good \in {Reconcile(Cluster, last'.p, NoFault, SharedLoopVar, order)} :
                    /\ last'.err /\ last'.requeue = 0 /\ ~last'.finished
                    /\ last'.k \in DOMAIN d.components
                    /\ \A j \in DOMAIN d.components :
                            /\ j > last'.k =>
                                    /\ svc'[d.components[j].Name] = svc[d.components[j].Name]
                                    /\ yas'[d.components[j].Name] = yas[d.components[j].Name]
                            /\ j < last'.k =>
                                    /\ svc'[d.components[j].Name] = good.c.svc[d.components[j].Name]
                                    /\ yas'[d.components[j].Name] = good.c.yas[d.components[j].Name]
                    /\ yas'[d.components[last'.k].Name] = yas[d.components[last'.k].Name]
                    /\ last'.site = "svcUpsert" =>
                            svc'[d.components[last'.k].Name] = svc[d.components[last'.k].Name]
                    /\ \A n \in CompNames \ SeqNames(d.components) :
                            svc'[n] = svc[n] /\ yas'[n] = yas[n]]_vars

\* the call for the second component failed after the first was synchronized
C17_Witness ==
    /\ last.path = "normal" /\ last.err
    /\ last.site \in {"svcUpsert", "yasGet", "yasCreate", "yasPatch"}
    /\ last.k = 2
    /\ \E n \in last.need : svc[n].exists /\ yas[n].exists

\* C18: a normal pass in which a call of the garbage collection fails returns
\* what a pass from the same state without that failure returns (result and
\* error) and persists the same status (conditions, ready, the two counts)
\* and the same finalizer.
C18_GCFailureKeepsOutcome ==
    [][(last'.path = "normal" /\ last'.gcFailed) =>
        \A order \in Perms(ServiceNames(pa[last'.p].annotations)) :
            \A good \in {Reconcile(Cluster, last'.p, NoFault, SharedLoopVar, order)} :
                /\ last'.inner = good.out.inner
                /\ last'.err = good.out.err
                /\ last'.requeue = good.out.requeue
                /\ pa'[last'.p].status = good.c.pa[last'.p].status
                /\ pa'[last'.p].finalizer = good.c.pa[last'.p].finalizer]_vars

\* a pass whose garbage collection failed left an object of no desired
\* component owned by the parent
C18_Witness ==
    /\ last.path = "normal" /\ last.gcFailed /\ last.finished
    /\ \E n \in CompNames \ last.need :
            StillOwnedBy(svc[n], last.p) \/ StillOwnedBy(yas[n], last.p)

C20_CountsMatchDesired ==
    last.path = "normal" /\ ~last.statusErr =>
        \A order \in Perms(ServiceNames(pa[last.p].annotations)) :
            \A d \in {DesiredComponents(pa[last.p], SharedLoopVar, order)} :
                ~d.err =>
                    /\ pa[last.p].status.readyNum + pa[last.p].status.unreadyNum =
                            Len(d.components)
                    /\ pa[last.p].status.readyNum >= 0
                    /\ pa[last.p].status.readyNum <= Len(d.components)

\* C21: the desired list a pass under way works with is the catalog list of
\* its parent's mode and version followed by the components of its parent's
\* annotations, whatever passes of other parents do meanwhile.
C21_DesiredListIsOwn ==
    \A p \in Parents :
        inflight[p].phase = "resolved" =>
            \E order \in Perms(ServiceNames(pa[p].annotations)) :
                AliasSeen(p) =
                    CatalogComponents(pa[p])
                    \o annotationToComponent(pa[p].annotations, SharedLoopVar,
                                             order).components

\* C22: whenever a YurtAppSet holds a pool entry of an existing parent's pool
\* name, the parent as the API server has it carries the finalizer.
C22_FinalizerBeforePoolEntry ==
    \A p \in Parents :
        /\ pa[p].exists
        /\ \E n \in CompNames :
                yas[n].exists /\ pa[p].poolName \in PoolEntryNames(yas[n])
        => pa[p].finalizer

\* C23: a parent with a deletion timestamp eventually has its finalizer
\* removed (and is gone), whatever its annotations and whatever pool lists the
\* YurtAppSets hold, when no call fails and the parent is handed to Reconcile
\* again and again.
C23_DeletingLosesFinalizer ==
    (pa["pa1"].exists /\ pa["pa1"].deleting) ~> ~pa["pa1"].exists

\* what removeOwner for parent p may make of an object old
C24_Frame(p, old, new) ==
    old # new =>
        /\ old.exists
        /\ p \in OwnerUids(old.owners)
        /\ IF new.exists
           THEN /\ new = [old EXCEPT !.owners = new.owners]
                /\ Len(new.owners) = Len(old.owners) - 1
                /\ Range(new.owners) = {r \in Range(old.owners) : r.uid # p}
           ELSE OwnerUids(old.owners) = {p}

\* C24: when the garbage collection of a pass of parent p changes a Service
\* or a YurtAppSet that the pass does not need, p was among its owners; if the
\* object is still there, its owners are the former ones without p, each
\* unchanged; if it is deleted, p was its only owner.
C24_CollectsOnlyOwn ==
    [][\A p \in Parents :
            inflight[p].phase = "listed" /\ inflight'[p].phase = "idle" =>
                \A n \in CompNames \ SeqNames(inflight[p].list) :
                    /\ C24_Frame(p, svc[n], svc'[n])
                    /\ C24_Frame(p, yas[n], yas'[n])]_vars

\* C25: after a normal pass that runs to its end without error every YurtAppSet that
\* holds a pool entry of the parent's pool name is named by a component the
\* pass desired, and after the deletion pass that removes the finalizer no
\* YurtAppSet holds such an entry.
C25_PoolEntriesFollowDesired ==
    /\ last.path = "normal" /\ last.finished /\ ~last.err =>
            \A n \in CompNames :
                yas[n].exists /\ pa[last.p].poolName \in PoolEntryNames(yas[n])
                => n \in last.need
    /\ last.path = "delete" /\ last.finished =>
            \A n \in CompNames :
                yas[n].exists => pa[last.p].poolName \notin PoolEntryNames(yas[n])

====
